---- MODULE Spec2Model ----
(***************************************************************************)
(* Model of email_checker_app.py: the batch loop, check_email,             *)
(* has_mx_record and is_catch_all with its process-wide cache              *)
(* checked_domains.                                                        *)
(*                                                                         *)
(* An address string is a sequence of lexemes: the separators " ", ";"     *)
(* and "@", and words (local parts and domain names).  The DNS resolver    *)
(* and the remote SMTP server are the environment: every call to them      *)
(* returns one of the outcomes the library can produce, chosen with \E.    *)
(***************************************************************************)
EXTENDS Integers, Sequences, FiniteSets, TLC

\* ------------------------------------------------------------------ bounds
MaxBatch == 2          \* addresses in the sequential batch
ConcBatch == 1         \* addresses per worker in the parallel batch

Workers == {"w1", "w2"}
Main == "w1"

\* --------------------------------------------------------- static data
DISPOSABLE_DOMAINS == {"mailinator.com", "10minutemail.com", "tempmail.com", "yopmail.com"}
TYPO_DOMAINS == {"gamil.com", "yaho.com", "hotnail.com"}

LocalParts == {"user"}
DomainNames == {"strict.org", "Strict.Org", "mailinator.com", "MAILINATOR.COM", "gamil.com"}

\* raw address strings a caller can submit
Inputs ==
  { <<"not-an-email">>,
    <<"user", "@">>,
    <<"@", "strict.org">>,
    <<"user", "@", "strict.org">>,
    <<"user", "@", "Strict.Org">>,
    <<"user", "@", "mailinator.com">>,
    <<"user", "@", "MAILINATOR.COM">>,
    <<" ", "user", "@", "gamil.com", ";">>,
    <<"user", "@", "strict.org", " ", ";">> }

\* the header line of a CSV file
Header == <<"email">>

InputMethods == {"Upload CSV", "Paste Emails"}

ConcInputs ==
  { <<"user", "@">>,
    <<"user", "@", "strict.org">>,
    <<"user", "@", "Strict.Org">>,
    <<"user", "@", "mailinator.com">> }

\* answers of a successful MX query: records in resolver-returned order
MXAnswers ==
  { << [preference |-> 10, exchange |-> "mx1"] >>,
    << [preference |-> 20, exchange |-> "mx2"], [preference |-> 10, exchange |-> "mx1"] >> }

\* the ways an MX query fails (dns.resolver exceptions)
DnsFailures == {"NXDOMAIN", "NoAnswer", "Timeout"}

\* reply codes of the RCPT command
RcptCodes == {250, 550, 450}

\* --------------------------------------------------------- pure functions
\* str.strip(): drop leading and trailing whitespace
RECURSIVE LStrip(_)
LStrip(s) == IF s # <<>> /\ Head(s) = " " THEN LStrip(Tail(s)) ELSE s

RECURSIVE RStrip(_)
RStrip(s) ==
  IF s # <<>> /\ s[Len(s)] = " " THEN RStrip(SubSeq(s, 1, Len(s) - 1)) ELSE s

Strip(s) == RStrip(LStrip(s))

\* str.replace(';', '')
RemoveSemicolons(s) == SelectSeq(s, LAMBDA c : c # ";")

\* line 73: email.strip().replace(';', '')
Clean(raw) == RemoveSemicolons(Strip(raw))

\* line 172: the pasted lines, each stripped, blank ones dropped
ParsePaste(lines) ==
  LET stripped == [i \in 1..Len(lines) |-> Strip(lines[i])]
  IN  SelectSeq(stripped, LAMBDA l : l # << >>)

\* lines 163-167: read_csv(..., skiprows=1) drops the first line of the file,
\* dropna() the empty cells; then ';' is removed and the cell stripped
ParseCsv(rows) ==
  LET cells == SelectSeq(IF rows = << >> THEN << >> ELSE Tail(rows), LAMBDA r : r # << >>)
  IN  [i \in 1..Len(cells) |-> Strip(RemoveSemicolons(cells[i]))]

\* lines 160-172: the address list from the chosen input
ParseInput(method, rows) ==
  IF method = "Upload CSV" THEN ParseCsv(rows) ELSE ParsePaste(rows)

\* the domain kept as typed (no .lower())
LowerKeepsCase(w) == w

\* str.lower() on the domain names of the model
Lower(w) ==
  CASE w = "Strict.Org" -> "strict.org"
    [] w = "MAILINATOR.COM" -> "mailinator.com"
    [] OTHER -> w

\* a validator that does not check the local part
SyntaxOkAnyLocal(s) ==
  /\ Len(s) >= 2
  /\ s[Len(s) - 1] = "@"
  /\ s[Len(s)] \in DomainNames

\* validate_email(email, check_deliverability=False): TRUE iff the string
\* is local-part "@" domain with both sides non-empty and well-shaped
SyntaxOk(s) ==
  /\ Len(s) = 3
  /\ s[1] \in LocalParts
  /\ s[2] = "@"
  /\ s[3] \in DomainNames

\* the domain as typed
DomainOfAsTyped(s) == s[Len(s)]

\* line 82: valid['domain'].lower(); the domain is the part after the "@"
DomainOf(s) == Lower(s[Len(s)])

\* has_mx_record catching only NXDOMAIN and NoAnswer
has_mx_record_narrow(outcome) == outcome \notin {"NXDOMAIN", "NoAnswer"}

\* lines 65-70: has_mx_record, from the outcome of its MX query
has_mx_record(outcome) == outcome \notin DnsFailures

\* the 550 branch giving 'maybe'
ClassifyRejectAsMaybe(code) ==
  IF code = 250 THEN "maybe"
  ELSE IF code = 550 THEN "maybe"
  ELSE "False"

\* lines 34-39: the result for a RCPT reply code ("False" is Python's False)
Classify(code) ==
  IF code = 250 THEN "maybe"
  ELSE IF code = 550 THEN "False"
  ELSE "False"

\* Python truthiness of an is_catch_all result (line 97)
Truthy(v) == v # "False"

\* a cache that holds the latest domain only
CacheStoreEvicts(cache, d, r) == (d :> r)

\* a cache that keeps only truthy results
CacheStoreTruthy(cache, d, r) == IF r = "False" THEN cache ELSE (d :> r) @@ cache

\* lines 20, 47: checked_domains[domain] = result
CacheStore(cache, d, r) == (d :> r) @@ cache

\* line 23: the exchange the prober contacts
MailServer(mx_records) == mx_records[1].exchange

\* a prober that goes on to DATA before it quits
AfterRcptWithData == <<"DATA", "QUIT">>

\* commands of a session after the RCPT reply (line 32)
AfterRcpt == <<"QUIT">>

Verdict(e, s, a) == [email |-> e, validation_status |-> s, validation_analysis |-> a]

NoVerdict == Verdict(<<>>, "", "")


\* ------------------------------------------------------------------ state
VARIABLES
  input_method,     \* "Upload CSV" or "Paste Emails" (line 156)
  raw_input,        \* the lines of the uploaded file or of the pasted text
  emails,           \* per worker: the submitted address list (line 158)
  idx,              \* per worker: addresses processed so far (line 180)
  checked_results,  \* per worker: verdicts emitted so far (line 176)
  pc,               \* per worker: position in the code
  email,            \* check_email: the cleaned address (line 73)
  domain,           \* check_email / is_catch_all: the domain
  result,           \* check_email: the verdict being built (line 74)
  site,             \* which call of is_catch_all is running: 94 or 97
  ret,              \* is_catch_all: its local `result`, then the value returned
  mx_records,       \* is_catch_all: the answer of its MX query (line 18), <<>> if none
  mail_server,      \* is_catch_all: the exchange host (line 23)
  server,           \* is_catch_all: index in sessions of its SMTP object, 0 if none
  code,             \* is_catch_all: RCPT reply code (line 31), 0 if none
  checked_domains,  \* the process-wide cache (line 11)
  sessions,         \* every SMTP connection opened, with the commands sent on it
  ica_calls,        \* every finished is_catch_all call: who, domain, result, probed
  dns_lookups,      \* number of dns.resolver.resolve calls made
  mx,               \* per worker: outcome of has_mx_record's MX query, "" if none yet
  raised,           \* per worker: the step of is_catch_all that raised, "" if none
  entry             \* per worker: the counters at entry of the running check_email

vars == << input_method, raw_input, emails, idx, checked_results, pc, email, domain, result, site, ret,
           mx_records, mail_server, server, code, checked_domains, sessions,
           ica_calls,
           dns_lookups, mx, raised, entry >>

inputVars == << input_method, raw_input, emails >>
loopVars == << inputVars, idx, checked_results >>
icaLocals == << ret, mx_records, mail_server, server, code, raised >>
shared == << checked_domains, sessions, ica_calls, dns_lookups >>

Snapshot ==
  [cache |-> checked_domains, nsessions |-> Len(sessions),
   ncalls |-> Len(ica_calls), ndns |-> dns_lookups]

RECURSIVE SeqsUpTo(_, _)
SeqsUpTo(S, n) ==
  IF n = 0 THEN { <<>> }
  ELSE LET shorter == SeqsUpTo(S, n - 1)
       IN  shorter \cup { Append(q, x) : q \in shorter, x \in S }

InitLocals ==
  /\ idx = [t \in Workers |-> 0]
  /\ checked_results = [t \in Workers |-> <<>>]
  \* line 174: the batch runs only when there are addresses
  /\ pc = [t \in Workers |-> IF emails[t] = << >> THEN "idle" ELSE "loop"]
  /\ email = [t \in Workers |-> <<>>]
  /\ domain = [t \in Workers |-> ""]
  /\ result = [t \in Workers |-> NoVerdict]
  /\ site = [t \in Workers |-> 0]
  /\ ret = [t \in Workers |-> ""]
  /\ mx_records = [t \in Workers |-> << >>]
  /\ mail_server = [t \in Workers |-> ""]
  /\ server = [t \in Workers |-> 0]
  /\ code = [t \in Workers |-> 0]
  /\ checked_domains = << >>
  /\ sessions = << >>
  /\ ica_calls = << >>
  /\ dns_lookups = 0
  /\ mx = [t \in Workers |-> ""]
  /\ raised = [t \in Workers |-> ""]
  /\ entry = [t \in Workers |-> [cache |-> << >>, nsessions |-> 0, ncalls |-> 0, ndns |-> 0]]

\* what a user can upload or paste: up to n address lines, for a CSV file
\* with or without the header line
RawInputs(method, n) ==
  IF method = "Upload CSV"
  THEN { <<Header>> \o es : es \in SeqsUpTo(Inputs, n) }
         \cup (SeqsUpTo(Inputs, n) \ { << >> })
  ELSE SeqsUpTo(Inputs, n)

\* the script as written: one thread runs the batch loop over the parsed input
Init ==
  /\ input_method \in InputMethods
  /\ raw_input \in RawInputs(input_method, MaxBatch)
  /\ emails = [t \in Workers |-> IF t = Main THEN ParseInput(input_method, raw_input) ELSE <<>>]
  /\ InitLocals

\* a caller that parallelizes the checks: the pasted addresses are dealt out
\* to workers that each run check_email
InitConc ==
  /\ input_method = "Paste Emails"
  /\ emails \in [Workers -> (SeqsUpTo(ConcInputs, ConcBatch) \ { <<>> })]
  /\ raw_input = emails["w1"] \o emails["w2"]
  /\ InitLocals

\* ------------------------------------------------------------- batch loop
\* lines 180, 193: take the next address and call check_email
LoopNext(t) ==
  /\ pc[t] = "loop"
  /\ idx[t] < Len(emails[t])
  /\ pc' = [pc EXCEPT ![t] = "ce_validate"]
  /\ entry' = [entry EXCEPT ![t] = Snapshot]
  /\ UNCHANGED << loopVars, email, domain, result, site, icaLocals, shared, mx >>

\* line 197: the loop is over
LoopDone(t) ==
  /\ pc[t] = "loop"
  /\ idx[t] = Len(emails[t])
  /\ pc' = [pc EXCEPT ![t] = "done"]
  /\ UNCHANGED << loopVars, email, domain, result, site, icaLocals, shared, mx, entry >>

\* ------------------------------------------------------------ check_email
\* lines 73-86: clean the input, validate its syntax
Validate(t) ==
  /\ pc[t] = "ce_validate"
  /\ LET e == Clean(emails[t][idx[t] + 1])
     IN  /\ email' = [email EXCEPT ![t] = e]
         /\ IF SyntaxOk(e)
            THEN /\ domain' = [domain EXCEPT ![t] = DomainOf(e)]
                 /\ result' = [result EXCEPT ![t] = Verdict(e, "", "")]
                 /\ pc' = [pc EXCEPT ![t] = "ce_mx"]
            ELSE /\ result' = [result EXCEPT ![t] = Verdict(e, "Do Not Send", "Invalid Syntax")]
                 /\ pc' = [pc EXCEPT ![t] = "ce_return"]
                 /\ UNCHANGED domain
  /\ UNCHANGED << loopVars, site, icaLocals, shared, mx, entry >>


\* lines 88-90, 65-70: has_mx_record(domain)
HasMxRecord(t) ==
  /\ pc[t] = "ce_mx"
  /\ \E o \in {"answer"} \cup DnsFailures :
       /\ mx' = [mx EXCEPT ![t] = o]
       /\ IF has_mx_record(o)
          THEN /\ pc' = [pc EXCEPT ![t] = "ce_disposable"]
               /\ UNCHANGED result
          ELSE /\ result' = [result EXCEPT ![t] = Verdict(email[t], "Do Not Send", "No MX")]
               /\ pc' = [pc EXCEPT ![t] = "ce_return"]
  /\ dns_lookups' = dns_lookups + 1
  /\ UNCHANGED << loopVars, email, domain, site, icaLocals, checked_domains,
                  sessions, ica_calls, entry >>

\* a decision order that also turns away the known-typo domains
CheckDisposableOrTypo(t) ==
  /\ pc[t] = "ce_disposable"
  /\ IF domain[t] \in DISPOSABLE_DOMAINS \cup TYPO_DOMAINS
     THEN /\ result' = [result EXCEPT ![t] = Verdict(email[t], "Do Not Send", "Disposable")]
          /\ pc' = [pc EXCEPT ![t] = "ce_return"]
          /\ UNCHANGED site
     ELSE /\ site' = [site EXCEPT ![t] = 94]
          /\ pc' = [pc EXCEPT ![t] = "ica_check"]
          /\ UNCHANGED result
  /\ UNCHANGED << loopVars, email, domain, icaLocals, shared, mx, entry >>

\* lines 91-94: the disposable list, else the first call of is_catch_all
CheckDisposable(t) ==
  /\ pc[t] = "ce_disposable"
  /\ IF domain[t] \in DISPOSABLE_DOMAINS
     THEN /\ result' = [result EXCEPT ![t] = Verdict(email[t], "Do Not Send", "Disposable")]
          /\ pc' = [pc EXCEPT ![t] = "ce_return"]
          /\ UNCHANGED site
     ELSE /\ site' = [site EXCEPT ![t] = 94]
          /\ pc' = [pc EXCEPT ![t] = "ica_check"]
          /\ UNCHANGED result
  /\ UNCHANGED << loopVars, email, domain, icaLocals, shared, mx, entry >>

\* a composer that labels the 'maybe' result with the icon table's 'Maybe Send'
ResumeMaybeSend(t, v) ==
  IF site[t] = 94
  THEN IF v = "maybe"
       THEN /\ result' = [result EXCEPT ![t] = Verdict(email[t], "Maybe Send", "Catch-All")]
            /\ pc' = [pc EXCEPT ![t] = "ce_return"]
            /\ UNCHANGED site
       ELSE /\ site' = [site EXCEPT ![t] = 97]
            /\ pc' = [pc EXCEPT ![t] = "ica_check"]
            /\ UNCHANGED result
  ELSE /\ result' = [result EXCEPT ![t] =
                       IF Truthy(v)
                       THEN Verdict(email[t], "Do Not Send", "Catch-All")
                       ELSE Verdict(email[t], "Okay to Send", "Accepted")]
       /\ pc' = [pc EXCEPT ![t] = "ce_return"]
       /\ UNCHANGED site

\* lines 94-102: check_email goes on with the value v is_catch_all returned
Resume(t, v) ==
  IF site[t] = 94
  THEN IF v = "maybe"
       THEN /\ result' = [result EXCEPT ![t] = Verdict(email[t], "Do Not Send", "Catch-All")]
            /\ pc' = [pc EXCEPT ![t] = "ce_return"]
            /\ UNCHANGED site
       ELSE /\ site' = [site EXCEPT ![t] = 97]
            /\ pc' = [pc EXCEPT ![t] = "ica_check"]
            /\ UNCHANGED result
  ELSE /\ result' = [result EXCEPT ![t] =
                       IF Truthy(v)
                       THEN Verdict(email[t], "Do Not Send", "Catch-All")
                       ELSE Verdict(email[t], "Okay to Send", "Accepted")]
       /\ pc' = [pc EXCEPT ![t] = "ce_return"]
       /\ UNCHANGED site

\* a loop that puts the newest verdict first
CheckEmailReturnPrepend(t) ==
  /\ pc[t] = "ce_return"
  /\ checked_results' = [checked_results EXCEPT ![t] = <<result[t]>> \o @]
  /\ idx' = [idx EXCEPT ![t] = @ + 1]
  /\ pc' = [pc EXCEPT ![t] = "loop"]
  /\ email' = [email EXCEPT ![t] = <<>>]
  /\ domain' = [domain EXCEPT ![t] = ""]
  /\ result' = [result EXCEPT ![t] = NoVerdict]
  /\ site' = [site EXCEPT ![t] = 0]
  /\ ret' = [ret EXCEPT ![t] = ""]
  /\ mx_records' = [mx_records EXCEPT ![t] = << >>]
  /\ mail_server' = [mail_server EXCEPT ![t] = ""]
  /\ server' = [server EXCEPT ![t] = 0]
  /\ code' = [code EXCEPT ![t] = 0]
  /\ mx' = [mx EXCEPT ![t] = ""]
  /\ raised' = [raised EXCEPT ![t] = ""]
  /\ UNCHANGED << inputVars, shared, entry >>

\* lines 104, 194: return the verdict; the loop appends it
CheckEmailReturn(t) ==
  /\ pc[t] = "ce_return"
  /\ checked_results' = [checked_results EXCEPT ![t] = Append(@, result[t])]
  /\ idx' = [idx EXCEPT ![t] = @ + 1]
  /\ pc' = [pc EXCEPT ![t] = "loop"]
  /\ email' = [email EXCEPT ![t] = <<>>]
  /\ domain' = [domain EXCEPT ![t] = ""]
  /\ result' = [result EXCEPT ![t] = NoVerdict]
  /\ site' = [site EXCEPT ![t] = 0]
  /\ ret' = [ret EXCEPT ![t] = ""]
  /\ mx_records' = [mx_records EXCEPT ![t] = << >>]
  /\ mail_server' = [mail_server EXCEPT ![t] = ""]
  /\ server' = [server EXCEPT ![t] = 0]
  /\ code' = [code EXCEPT ![t] = 0]
  /\ mx' = [mx EXCEPT ![t] = ""]
  /\ raised' = [raised EXCEPT ![t] = ""]
  /\ UNCHANGED << inputVars, shared, entry >>


\* ----------------------------------------------------------- is_catch_all
CallRecord(t, v, probed) ==
  [by |-> t, domain |-> domain[t], result |-> v, probed |-> probed,
   session |-> IF probed THEN server[t] ELSE 0]

\* lines 14-16: the cache check; on a hit return the cached result
CacheLookup(t) ==
  /\ pc[t] = "ica_check"
  /\ IF domain[t] \in DOMAIN checked_domains
     THEN /\ ica_calls' = Append(ica_calls, CallRecord(t, checked_domains[domain[t]], FALSE))
          /\ Resume(t, checked_domains[domain[t]])
     ELSE /\ pc' = [pc EXCEPT ![t] = "ica_resolve"]
          /\ UNCHANGED << ica_calls, result, site >>
  /\ UNCHANGED << loopVars, email, domain, icaLocals, checked_domains, sessions,
                  dns_lookups, mx, entry >>

\* an except clause that does not catch: the exception leaves is_catch_all,
\* check_email and the loop
RaiseEscapes(t, where) ==
  /\ raised' = [raised EXCEPT ![t] = where]
  /\ pc' = [pc EXCEPT ![t] = "aborted"]
  /\ UNCHANGED ret

\* lines 41-45: any exception inside the try block gives result = False
Raise(t, where) ==
  /\ raised' = [raised EXCEPT ![t] = where]
  /\ ret' = [ret EXCEPT ![t] = "False"]
  /\ pc' = [pc EXCEPT ![t] = "ica_store"]

\* the command `name` goes out on the worker's connection
Send(t, names) ==
  sessions' = [sessions EXCEPT ![server[t]].cmds = @ \o names]

\* lines 18-23: the prober's own MX query
Resolve(t) ==
  /\ pc[t] = "ica_resolve"
  /\ dns_lookups' = dns_lookups + 1
  /\ \/ \E answer \in MXAnswers :
          /\ mx_records' = [mx_records EXCEPT ![t] = answer]
          /\ IF answer = << >>
             THEN /\ ret' = [ret EXCEPT ![t] = "False"]
                  /\ pc' = [pc EXCEPT ![t] = "ica_store"]
                  /\ UNCHANGED << mail_server, raised >>
             ELSE /\ mail_server' = [mail_server EXCEPT ![t] = MailServer(answer)]
                  /\ pc' = [pc EXCEPT ![t] = "ica_connect"]
                  /\ UNCHANGED << ret, raised >>
     \/ /\ Raise(t, "resolve")
        /\ UNCHANGED << mx_records, mail_server >>
  /\ UNCHANGED << loopVars, email, domain, result, site, server, code,
                  checked_domains, sessions, ica_calls, mx, entry >>

\* lines 25-26: smtplib.SMTP(timeout=10); server.connect(mail_server)
Connect(t) ==
  /\ pc[t] = "ica_connect"
  /\ \/ /\ sessions' = Append(sessions, [domain |-> domain[t], host |-> mail_server[t],
                                         by |-> t, cmds |-> <<"connect">>])
        /\ server' = [server EXCEPT ![t] = Len(sessions) + 1]
        /\ pc' = [pc EXCEPT ![t] = "ica_helo"]
        /\ UNCHANGED << ret, raised >>
     \/ /\ Raise(t, "connect")
        /\ UNCHANGED << sessions, server >>
  /\ UNCHANGED << loopVars, email, domain, result, site, mx_records, mail_server, code,
                  checked_domains, ica_calls, dns_lookups, mx, entry >>

\* line 27: server.helo("test.local")
Helo(t) ==
  /\ pc[t] = "ica_helo"
  /\ Send(t, <<"HELO">>)
  /\ \/ /\ pc' = [pc EXCEPT ![t] = "ica_mail"]
        /\ UNCHANGED << ret, raised >>
     \/ Raise(t, "helo")
  /\ UNCHANGED << loopVars, email, domain, result, site, mx_records, mail_server, server, code,
                  checked_domains, ica_calls, dns_lookups, mx, entry >>

\* line 28: server.mail("test@" + domain)
Mail(t) ==
  /\ pc[t] = "ica_mail"
  /\ Send(t, <<"MAIL">>)
  /\ \/ /\ pc' = [pc EXCEPT ![t] = "ica_rcpt"]
        /\ UNCHANGED << ret, raised >>
     \/ Raise(t, "mail")
  /\ UNCHANGED << loopVars, email, domain, result, site, mx_records, mail_server, server, code,
                  checked_domains, ica_calls, dns_lookups, mx, entry >>

\* lines 30-31: server.rcpt(fake_user@domain)
Rcpt(t) ==
  /\ pc[t] = "ica_rcpt"
  /\ Send(t, <<"RCPT">>)
  /\ \/ /\ \E c \in RcptCodes : code' = [code EXCEPT ![t] = c]
        /\ pc' = [pc EXCEPT ![t] = "ica_quit"]
        /\ UNCHANGED << ret, raised >>
     \/ /\ Raise(t, "rcpt")
        /\ UNCHANGED code
  /\ UNCHANGED << loopVars, email, domain, result, site, mx_records, mail_server, server,
                  checked_domains, ica_calls, dns_lookups, mx, entry >>

\* lines 32-39: server.quit(), then the result from the RCPT code
Quit(t) ==
  /\ pc[t] = "ica_quit"
  /\ Send(t, AfterRcpt)
  /\ \/ /\ ret' = [ret EXCEPT ![t] = Classify(code[t])]
        /\ pc' = [pc EXCEPT ![t] = "ica_store"]
        /\ UNCHANGED raised
     \/ Raise(t, "quit")
  /\ UNCHANGED << loopVars, email, domain, result, site, mx_records, mail_server, server, code,
                  checked_domains, ica_calls, dns_lookups, mx, entry >>

\* lines 20-21, 47-48: store the result in the cache and return it
Store(t) ==
  /\ pc[t] = "ica_store"
  /\ checked_domains' = CacheStore(checked_domains, domain[t], ret[t])
  /\ ica_calls' = Append(ica_calls, CallRecord(t, ret[t], TRUE))
  /\ Resume(t, ret[t])
  /\ UNCHANGED << loopVars, email, domain, icaLocals, sessions, dns_lookups, mx, entry >>

\* ------------------------------------------------------------ next-state
Next ==
  \E t \in Workers :
    \/ LoopNext(t)
    \/ LoopDone(t)
    \/ Validate(t)
    \/ HasMxRecord(t)
    \/ CheckDisposable(t)
    \/ CacheLookup(t)
    \/ Resolve(t)
    \/ Connect(t)
    \/ Helo(t)
    \/ Mail(t)
    \/ Rcpt(t)
    \/ Quit(t)
    \/ Store(t)
    \/ CheckEmailReturn(t)

Spec == Init /\ [][Next]_vars

SpecConc == InitConc /\ [][Next]_vars

\* the script thread keeps running, and every DNS query and SMTP command
\* returns or raises within its timeout (line 25), so an enabled step is taken
SpecLive == Init /\ [][Next]_vars /\ WF_vars(Next)

TypeOK ==
  /\ \A t \in Workers : idx[t] <= Len(emails[t])
  /\ \A d \in DOMAIN checked_domains : checked_domains[d] \in {"maybe", "False"}


\* ------------------------------------------------------------ properties
Returning(t) == pc[t] = "ce_return"

Is(t, status, analysis) ==
  /\ result[t].validation_status = status
  /\ result[t].validation_analysis = analysis

\* the running check_email call got past syntax, MX and the disposable list
\* with a domain that had no cache entry when the call began
ReachedProbe(t) ==
  /\ Returning(t)
  /\ SyntaxOk(email[t])
  /\ mx[t] = "answer"
  /\ domain[t] \notin DISPOSABLE_DOMAINS
  /\ domain[t] \notin DOMAIN entry[t].cache

\* nothing of the prober or the cache was used since the call began
NoProbeSinceEntry(t) ==
  /\ Len(ica_calls) = entry[t].ncalls
  /\ Len(sessions) = entry[t].nsessions
  /\ checked_domains = entry[t].cache

ProbeFailed(t) ==
  \/ raised[t] \in {"resolve", "connect", "helo", "mail", "rcpt"}
  \/ code[t] \notin {0, 250, 550}

\* C1: when the probe of an uncached domain fails (an exception in the MX
\* lookup, connect, HELO, MAIL or RCPT) or RCPT answers a code other than 250
\* and 550, check_email returns Do Not Send / Catch-All.
C1_UnprobableIsCatchAll ==
  \A t \in Workers :
    (ReachedProbe(t) /\ ProbeFailed(t)) => Is(t, "Do Not Send", "Catch-All")

\* C2: a valid address whose MX query fails gets Do Not Send / No MX, and the
\* call made one DNS query, no is_catch_all call, no SMTP session and no change
\* to the cache, disposable domain or not.
C2_NoMxShortCircuits ==
  \A t \in Workers :
    (Returning(t) /\ SyntaxOk(email[t]) /\ mx[t] \in DnsFailures) =>
      /\ Is(t, "Do Not Send", "No MX")
      /\ NoProbeSinceEntry(t)
      /\ dns_lookups = entry[t].ndns + 1

C2_Witness ==
  \E t \in Workers :
    /\ Returning(t)
    /\ mx[t] = "Timeout"
    /\ domain[t] \in DISPOSABLE_DOMAINS
    /\ Is(t, "Do Not Send", "No MX")

\* the spellings of disposable domains a caller can type
DisposableSpellings == {"mailinator.com", "MAILINATOR.COM"}

\* C3: a valid address whose domain, in any case, is a disposable domain with
\* a resolvable MX gets Do Not Send / Disposable with no is_catch_all call, no
\* SMTP session and no cache entry made.
C3_DisposableShortCircuits ==
  \A t \in Workers :
    (Returning(t) /\ email[t] \in { <<"user", "@", w>> : w \in DisposableSpellings }
       /\ mx[t] = "answer") =>
      /\ Is(t, "Do Not Send", "Disposable")
      /\ NoProbeSinceEntry(t)
      /\ domain[t] \notin DOMAIN checked_domains

C3_Witness ==
  \E t \in Workers :
    /\ Returning(t)
    /\ email[t] = <<"user", "@", "MAILINATOR.COM">>
    /\ mx[t] = "answer"
    /\ Is(t, "Do Not Send", "Disposable")

\* C4: per domain at most one SMTP session is ever opened and at most one
\* is_catch_all call runs the probe; every later call for the domain returns
\* the first call's result without probing.
C4_ProbeOncePerDomain ==
  /\ \A i, j \in 1..Len(sessions) :
       sessions[i].domain = sessions[j].domain => i = j
  /\ \A i, j \in 1..Len(ica_calls) :
       (i < j /\ ica_calls[i].domain = ica_calls[j].domain) =>
         /\ ~ica_calls[j].probed
         /\ ica_calls[j].result = ica_calls[i].result

\* a domain probed in one check_email call and asked for again in a later one
C4_Witness ==
  \E i, j \in 1..Len(ica_calls) :
    /\ i + 1 < j
    /\ ica_calls[i].domain = ica_calls[j].domain
    /\ ica_calls[i].probed
    /\ ica_calls[i].session # 0
    /\ ica_calls[i].result = "False"

\* C5: when RCPT for the random recipient of an uncached domain answers 250,
\* the domain is cached as 'maybe' and check_email returns Do Not Send /
\* Catch-All.
C5_AcceptedRcptIsCatchAll ==
  \A t \in Workers :
    (ReachedProbe(t) /\ code[t] = 250) =>
      /\ Is(t, "Do Not Send", "Catch-All")
      /\ checked_domains[domain[t]] = "maybe"

\* C6: when RCPT for the random recipient of an uncached domain answers 550,
\* the domain is cached as False and check_email returns Okay to Send /
\* Accepted.
C6_RejectedRcptIsAccepted ==
  \A t \in Workers :
    (ReachedProbe(t) /\ code[t] = 550) =>
      /\ Is(t, "Okay to Send", "Accepted")
      /\ checked_domains[domain[t]] = "False"

C6_Witness ==
  \E t \in Workers :
    /\ ReachedProbe(t)
    /\ code[t] = 550
    /\ raised[t] = ""
    /\ Is(t, "Okay to Send", "Accepted")

\* inputs with no "@", an empty domain, an empty local part
RejectedInputs == { <<"not-an-email">>, <<"user", "@">>, <<"@", "strict.org">> }

\* C7: an input the syntax validator rejects gets Do Not Send / Invalid
\* Syntax, and the call made no DNS query, no is_catch_all call, no SMTP
\* session and no cache access.
C7_InvalidSyntaxShortCircuits ==
  \A t \in Workers :
    (Returning(t) /\ (emails[t][idx[t] + 1] \in RejectedInputs \/ ~SyntaxOk(email[t]))) =>
      /\ Is(t, "Do Not Send", "Invalid Syntax")
      /\ NoProbeSinceEntry(t)
      /\ dns_lookups = entry[t].ndns
      /\ mx[t] = ""

\* an invalid input after a probed one, so the counters are not all zero
C7_Witness ==
  \E t \in Workers :
    /\ Returning(t)
    /\ emails[t][idx[t] + 1] = <<"@", "strict.org">>
    /\ Is(t, "Do Not Send", "Invalid Syntax")
    /\ Len(sessions) > 0

\* positions of is_catch_all at which its SMTP connection is open
InFlight == {"ica_helo", "ica_mail", "ica_rcpt", "ica_quit"}

\* C8: with callers running is_catch_all concurrently, per domain at most one
\* probe is in flight, at most one session is ever opened, and all calls
\* return the same result.
C8_SingleFlight ==
  /\ \A t, u \in Workers :
       (pc[t] \in InFlight /\ pc[u] \in InFlight /\ domain[t] = domain[u]) => t = u
  /\ \A i, j \in 1..Len(sessions) :
       sessions[i].domain = sessions[j].domain => i = j
  /\ \A i, j \in 1..Len(ica_calls) :
       ica_calls[i].domain = ica_calls[j].domain =>
         ica_calls[i].result = ica_calls[j].result

IsQuit(c) == c = "QUIT"

\* C9: when an is_catch_all call that opened an SMTP session has returned,
\* QUIT was sent on that session.
C9_SessionClosedOnReturn ==
  \A i \in 1..Len(ica_calls) :
    ica_calls[i].session # 0 =>
      SelectSeq(sessions[ica_calls[i].session].cmds, IsQuit) # << >>

ProbeScript == <<"connect", "HELO", "MAIL", "RCPT", "QUIT">>

\* C10: the commands sent on any session are a prefix of connect, HELO, MAIL
\* FROM, RCPT TO, QUIT: no DATA, none twice, only QUIT after RCPT.
C10_NoDataEverSent ==
  \A i \in 1..Len(sessions) :
    LET cmds == sessions[i].cmds
    IN  /\ Len(cmds) <= Len(ProbeScript)
        /\ cmds = SubSeq(ProbeScript, 1, Len(cmds))

C10_Witness ==
  \E i \in 1..Len(sessions) : sessions[i].cmds = ProbeScript


\* the first record, in resolver-returned order, with the lowest preference
LowestPreferenceHost(records) ==
  LET best == CHOOSE i \in 1..Len(records) :
                /\ \A j \in 1..Len(records) : records[i].preference <= records[j].preference
                /\ \A j \in 1..(i - 1) : records[j].preference > records[i].preference
  IN  records[best].exchange

\* C11: the host of the session a probe opens is the record of the MX answer
\* with the lowest preference value, ties broken by returned order.
C11_ConnectsToLowestPreference ==
  \A t \in Workers :
    (server[t] # 0 /\ mx_records[t] # << >>) =>
      sessions[server[t]].host = LowestPreferenceHost(mx_records[t])


BatchFinished ==
  \A t \in Workers :
    /\ pc[t] = IF emails[t] = << >> THEN "idle" ELSE "done"
    /\ Len(checked_results[t]) = Len(emails[t])

\* C12: whatever syntax errors, DNS failures and SMTP exceptions occur, the
\* batch loop eventually ends with one verdict for every submitted address.
C12_BatchEventuallyFinishes == <>BatchFinished

\* a finished batch of two that met a DNS failure and an SMTP exception
C12_Witness ==
  /\ BatchFinished
  /\ Len(checked_results[Main]) >= 2
  /\ \E i \in 1..Len(checked_results[Main]) :
       checked_results[Main][i].validation_analysis = "No MX"
  /\ \E i \in 1..Len(sessions) : sessions[i].cmds = <<"connect", "HELO">>


\* C13: at every point of the run the verdicts emitted so far are those of the
\* first idx submitted addresses, in submission order: row i reports address i
\* and is Invalid Syntax exactly when address i is malformed.
C13_VerdictsFollowSubmissionOrder ==
  \A t \in Workers :
    /\ Len(checked_results[t]) = idx[t]
    /\ idx[t] <= Len(emails[t])
    /\ \A i \in 1..Len(checked_results[t]) :
         /\ checked_results[t][i].email = Clean(emails[t][i])
         /\ (checked_results[t][i].validation_analysis = "Invalid Syntax")
              <=> ~SyntaxOk(Clean(emails[t][i]))

\* two different addresses of one domain, both reported
C13_Witness ==
  /\ emails[Main] = << <<"user", "@", "Strict.Org">>, <<"user", "@", "strict.org">> >>
  /\ Len(checked_results[Main]) = 2
  /\ checked_results[Main][1].email = <<"user", "@", "Strict.Org">>


\* no ';' anywhere and no whitespace at either end
FullyCleaned(e) ==
  /\ \A i \in 1..Len(e) : e[i] # ";"
  /\ e # << >> => (e[1] # " " /\ e[Len(e)] # " ")

\* C14: on the paste path and on the CSV path, the address check_email
\* validates and reports has no ';' and no leading or trailing whitespace.
C14_ReportedAddressIsCleaned ==
  \A t \in Workers :
    Returning(t) => (result[t].email = email[t] /\ FullyCleaned(email[t]))


\* the address lines of an uploaded file: every non-empty line but the header
AddressRows(rows) == SelectSeq(rows, LAMBDA r : r # Header /\ r # << >>)

\* C15: for an uploaded CSV file, with or without a header line, the finished
\* batch holds exactly one verdict for every address line of the file.
C15_EveryCsvAddressGetsVerdict ==
  (input_method = "Upload CSV" /\ pc[Main] = "done") =>
    Len(checked_results[Main]) = Len(AddressRows(raw_input))


\* C16: every step of the run keeps each existing cache entry with its value:
\* no entry is changed or removed, the set of cached domains only grows.
C16_CacheIsWriteOnce ==
  [][\A d \in DOMAIN checked_domains :
       /\ d \in DOMAIN checked_domains'
       /\ checked_domains'[d] = checked_domains[d]]_vars

\* two cached domains, and a later call served from the cache
C16_Witness ==
  /\ Cardinality(DOMAIN checked_domains) = 2
  /\ \E i \in 1..Len(ica_calls) : ~ica_calls[i].probed


\* C17: a typo domain is decided exactly like the plain domain strict.org, from
\* the MX outcome and the probe result alone: No MX when the MX query fails,
\* Catch-All when the cached result is 'maybe', else Okay to Send / Accepted
\* (so a typo domain whose probe answers 550 is Accepted).
C17_TypoDomainsNotConsulted ==
  \A t \in Workers :
    (Returning(t) /\ SyntaxOk(email[t]) /\ domain[t] \in {"strict.org"} \cup TYPO_DOMAINS) =>
      IF mx[t] \in DnsFailures
      THEN Is(t, "Do Not Send", "No MX")
      ELSE /\ domain[t] \in DOMAIN checked_domains
           /\ IF checked_domains[domain[t]] = "maybe"
              THEN Is(t, "Do Not Send", "Catch-All")
              ELSE Is(t, "Okay to Send", "Accepted")
           /\ code[t] = 550 => Is(t, "Okay to Send", "Accepted")

C17_Witness ==
  \E t \in Workers :
    /\ Returning(t)
    /\ domain[t] = "gamil.com"
    /\ domain[t] \in TYPO_DOMAINS
    /\ code[t] = 550
    /\ Is(t, "Okay to Send", "Accepted")


WellFormed(v) ==
  /\ v.validation_status \in {"Okay to Send", "Do Not Send"}
  /\ v.validation_analysis \in {"Invalid Syntax", "No MX", "Disposable", "Catch-All", "Accepted"}
  /\ (v.validation_status = "Okay to Send") <=> (v.validation_analysis = "Accepted")

\* C18: every verdict check_email returns, and every verdict the loop has
\* kept, has status Okay to Send or Do Not Send, one of the five reasons, and
\* status Okay to Send exactly when the reason is Accepted.
C18_VerdictsWellFormed ==
  \A t \in Workers :
    /\ Returning(t) => WellFormed(result[t])
    /\ \A i \in 1..Len(checked_results[t]) : WellFormed(checked_results[t][i])

\* a finished batch with a catch-all verdict and an accepted one
C18_Witness ==
  /\ Len(checked_results[Main]) = 2
  /\ checked_results[Main][1].validation_analysis = "Catch-All"
  /\ checked_results[Main][2].validation_analysis = "Accepted"


LowerCaseNames == {"strict.org", "mailinator.com", "gamil.com"}

\* the addresses submitted and taken up by check_email so far
TakenUp(t) ==
  { emails[t][i] : i \in { k \in 1..Len(emails[t]) : k <= idx[t] + 1 } }

\* keys are lower-cased, non-disposable domains of valid submitted addresses,
\* values are 'maybe' or False
CacheEntriesValid ==
  \A d \in DOMAIN checked_domains :
    /\ d \in LowerCaseNames
    /\ d \notin DISPOSABLE_DOMAINS
    /\ checked_domains[d] \in {"maybe", "False"}
    /\ \E t \in Workers : \E raw \in TakenUp(t) :
         /\ Len(Clean(raw)) = 3
         /\ Clean(raw)[1] \in LocalParts
         /\ Clean(raw)[2] = "@"
         /\ Clean(raw)[3] \in {d} \cup {w \in DomainNames : Lower(w) = d}

\* C19 as stated: the cache entries are valid, and no domain that a finished
\* check_email call rejected at the MX or disposable step has a cache entry.
C19_RejectedDomainsNeverCached ==
  /\ CacheEntriesValid
  /\ \A t \in Workers : \A i \in 1..Len(checked_results[t]) :
       checked_results[t][i].validation_analysis \in {"No MX", "Disposable"} =>
         DomainOf(checked_results[t][i].email) \notin DOMAIN checked_domains

\* C19 (amended): the cache entries are valid; an entry is created only by a
\* call whose address is valid and passed has_mx_record; and a call that ends
\* at the syntax, MX or disposable step leaves the cache as it found it.
C19_CacheKeysComeFromProbedCalls ==
  /\ [](CacheEntriesValid
        /\ \A t \in Workers :
             (Returning(t) /\ result[t].validation_analysis
                                \in {"Invalid Syntax", "No MX", "Disposable"}) =>
               checked_domains = entry[t].cache)
  /\ [][\A d \in (DOMAIN checked_domains') \ (DOMAIN checked_domains) :
          \E t \in Workers :
            /\ pc[t] = "ica_store"
            /\ domain[t] = d
            /\ SyntaxOk(email[t])
            /\ mx[t] = "answer"]_vars

\* a domain typed with capitals is cached, and a later call was turned away
\* at the MX step with the cache already filled
C19_Witness ==
  /\ Len(emails[Main]) = 2
  /\ emails[Main][1] = <<"user", "@", "Strict.Org">>
  /\ "strict.org" \in DOMAIN checked_domains
  /\ Returning(Main)
  /\ idx[Main] = 1
  /\ result[Main].validation_analysis = "No MX"

====
